---- MODULE Spec2Model ----
(***************************************************************************)
(* POS sale engine of restaurant_os: create_sale / bulk_sync_sales         *)
(* (views.py), recipe driven inventory deduction and the inventory         *)
(* transaction log (models.py), with the inventory endpoints that write    *)
(* quantity_in_stock, and the catalog and order endpoints that touch what  *)
(* a sale reads or has written: menu item price changes and deletions,     *)
(* inventory item deletions, mark_received.                                *)
(*                                                                         *)
(* Quantities are integers in thousandths of a unit (the three decimal     *)
(* places of RecipeIngredient.quantity); quantity_in_stock is a column of  *)
(* two decimal places, so a persisted stock is a multiple of 10.           *)
(*                                                                         *)
(* Storage: every request handler works in its own database transaction    *)
(* (transaction.atomic).  A transaction sees the committed rows plus its   *)
(* own writes, an UPDATE of a row waits for the transaction that holds an  *)
(* uncommitted write of that row, and an INSERT of a unique key waits for  *)
(* an uncommitted INSERT of the same key (read committed isolation).       *)
(*                                                                         *)
(* views.py reads schema attributes that models.py does not declare        *)
(* (Restaurant.tax_rate, User.assigned_branches, POSSale.offline_sale_id, *)
(* InventoryItem.branch);                                                  *)
(* they are taken as declared by the schema the views run against, the     *)
(* offline id column with the constraints models.py gives offline_id.      *)
(***************************************************************************)
EXTENDS Integers, Sequences, FiniteSets, TLC

\* ------------------------------------------------------------------ bounds
MaxOps == 2           \* requests served: sale submissions and ledger calls

\* request handlers running at the same time
Workers == {1, 2}

NoId == 0             \* offline_sale_id absent (NULL), also "no sale"

\* ----------------------------------------------------------------- fixture
\* Inventory items: 1 chicken, 2 rice, 3 garnish; 4 is dough of restaurant 2;
\* 5 is napkins, an item of branch 1 that no recipe uses.
Items == {1, 2, 3, 4, 5}
InitStock ==
  [i \in Items |-> CASE i = 1 -> 200 [] i = 2 -> 150 [] i = 3 -> 10 [] OTHER -> 50]

\* Menu items: 1 tikka, 2 biryani, 3 soft drink (no recipe), 4 special (its
\* recipe is inactive); 5 is the naan of restaurant 2.
MenuItems == {1, 2, 3, 4, 5}
\* Branches 1 and 3 belong to restaurant 1, branch 2 to restaurant 2; branch
\* 3 has been deactivated (is_active = False).
Branches == {1, 2, 3}
BranchRestaurant == [b \in Branches |-> IF b = 2 THEN 2 ELSE 1]
BranchIsActive(b) == b # 3
MenuRestaurant == [m \in MenuItems |-> IF m = 5 THEN 2 ELSE 1]
\* Callers: the owner of restaurant 1, a staff member assigned to branch 1,
\* an admin.
Users == {"owner", "staff", "admin"}
UserRole(u) == u
OwnedRestaurants(u) == IF u = "owner" THEN {1} ELSE {}
AssignedBranches(u) == IF u = "staff" THEN {1} ELSE {}

\* Recipe rows, in RecipeIngredient.Meta.ordering (recipe, inventory_item).
Ingredients(m) ==
  CASE m = 1 -> << [item |-> 1, qty |-> 150, optional |-> FALSE],
                   [item |-> 2, qty |-> 4,   optional |-> FALSE] >>
    [] m = 2 -> << [item |-> 2, qty |-> 60,  optional |-> FALSE],
                   [item |-> 3, qty |-> 10,  optional |-> TRUE] >>
    [] m = 4 -> << [item |-> 3, qty |-> 500, optional |-> FALSE] >>
    [] m = 5 -> << [item |-> 4, qty |-> 30,  optional |-> FALSE] >>
    [] OTHER -> << >>
\* MenuItem.price in cents when the system starts; Restaurant.tax_rate in
\* percent.
MenuPrice(m) == CASE m = 1 -> 500 [] m = 2 -> 350 [] m = 3 -> 25 [] OTHER -> 100
TaxRate(rs) == 2

\* InventoryOrder rows: order 1 is 1.000 of item 1, status 'pending'.
Orders == {1}
OrderItem(o) == 1
QuantityOrdered(o) == 1000

HasRecipe(m) == m \in {1, 2, 4, 5}
RecipeIsActive(m) == m \in {1, 2, 5}

Contacts == {"c1", "c2"}
\* customer_name that the request bodies send with a contact; the customer
\* of contact c1 is already stored, under the name "Ann".
CustomerName(c) == IF c = "c1" THEN "Anna" ELSE "Bob"

Line(m, n) == [menu |-> m, qty |-> n]
\* discount is discount_amount in cents, 0 unless the body gives one; user is
\* request.user, the owner unless said otherwise.
Request(b, c, its, sk, o) ==
  [branch |-> b, contact |-> c, items |-> its, skip |-> sk, offline |-> o,
   discount |-> 0, user |-> "owner"]
NoRequest == Request(0, "", << >>, FALSE, NoId)

\* create_sale bodies
CreateRequests ==
  { Request(1, "c1", << Line(1, 1) >>, FALSE, NoId),
    Request(1, "c1", << Line(2, 1) >>, FALSE, 7),
    Request(1, "c2", << Line(2, 1), Line(1, 2) >>, TRUE, NoId),
    Request(1, "c1", << Line(1, 1), Line(2, 1) >>, TRUE, NoId),
    Request(1, "c1", << Line(2, 1), Line(1, 1) >>, FALSE, NoId),
    Request(1, "c2", << Line(1, 2), Line(2, 3) >>, FALSE, NoId),
    Request(1, "c1", << Line(2, 2) >>, FALSE, NoId),
    Request(1, "c1", << Line(3, 1), Line(4, 1) >>, FALSE, NoId),
    Request(1, "c1", << Line(3, 1), Line(3, 1) >>, FALSE, NoId),
    Request(2, "c1", << Line(1, 1) >>, FALSE, NoId),
    Request(1, "c1", << >>, FALSE, NoId),
    Request(1, "c1", << Line(3, 0) >>, FALSE, NoId),
    Request(1, "c1", << Line(2, -1) >>, FALSE, NoId),
    Request(1, "c1", << Line(5, 1) >>, FALSE, NoId),
    Request(1, "c1", << Line(5, 2) >>, FALSE, NoId),
    [Request(1, "c1", << Line(3, 1) >>, FALSE, NoId) EXCEPT !.discount = 26],
    [Request(1, "c1", << Line(3, 1) >>, FALSE, NoId) EXCEPT !.user = "staff"],
    [Request(2, "c2", << Line(3, 1) >>, FALSE, NoId) EXCEPT !.user = "staff"],
    [Request(1, "c2", << Line(3, 1) >>, FALSE, NoId) EXCEPT !.user = "admin"],
    Request(3, "c1", << Line(3, 1) >>, FALSE, NoId) }
\* entries of a bulk_sync_sales body
BulkSale == Request(1, "c1", << Line(2, 1) >>, FALSE, 7)
BulkShort == Request(1, "c2", << Line(1, 2) >>, FALSE, 8)
BulkForeign == Request(1, "c1", << Line(5, 1) >>, FALSE, NoId)
\* menu item 9 does not exist
BulkUnknown == Request(1, "c2", << Line(9, 1) >>, FALSE, NoId)
BulkTikka == Request(1, "c1", << Line(1, 1) >>, FALSE, NoId)
BulkDenied == Request(2, "c2", << Line(1, 1) >>, FALSE, NoId)
BulkDrink == Request(1, "c1", << Line(3, 1) >>, FALSE, NoId)
Batches ==
  { << BulkSale >>, << BulkShort >>, << BulkShort, BulkSale >>,
    << BulkSale, BulkSale >>, << BulkForeign >>,
    << BulkSale, BulkUnknown, BulkTikka >>, << BulkDenied, BulkSale >>,
    << BulkDrink >> }


\* ------------------------------------------------------------------- state
VARIABLES
  stock,      \* InventoryItem.quantity_in_stock, committed rows
  txlog,      \* InventoryTransaction rows, committed, in insertion order
  sales,      \* POSSale rows with their POSSaleItem rows, committed
  customers,  \* Customer rows, committed
  nextId,     \* next POSSale primary key
  wk,         \* per request handler: position, request, open transaction
  lg,         \* the inventory endpoint / ledger caller
  out,        \* HTTP responses of the sale endpoints, in order
  ops,        \* requests taken so far
  menu,       \* MenuItem rows that exist: id -> price, committed
  orders,     \* InventoryOrder rows: id -> status
  gone        \* InventoryItem rows deleted through the inventory endpoint

vars ==
  << stock, txlog, sales, customers, nextId, wk, lg, out, ops,
     menu, orders, gone >>

\* quantity_in_stock rows written by an open transaction: none
NoStockWrites == [i \in {} |-> 0]

IdleWorker ==
  [pc |-> "idle", mode |-> "create", req |-> NoRequest,
   batch |-> << >>, queue |-> << >>, succ |-> << >>, fail |-> << >>,
   ovStock |-> NoStockWrites, ovLog |-> << >>, ovCust |-> {}, ovSale |-> << >>,
   li |-> 0, k |-> 0, mem |-> 0, errors |-> FALSE, raised |-> FALSE,
   made |-> << >>, known |-> NoId]

IdleLedger == [pc |-> "idle", item |-> 0, mem |-> 0, amt |-> 0]

Init ==
  /\ stock = InitStock
  /\ txlog = << >>
  /\ sales = {}
  /\ customers = { [contact |-> "c1", name |-> "Ann"] }
  /\ nextId = 1
  /\ wk = [w \in Workers |-> IdleWorker]
  /\ lg = IdleLedger
  /\ out = << >>
  /\ ops = 0
  /\ menu = [m \in MenuItems |-> MenuPrice(m)]
  /\ orders = [o \in Orders |-> "pending"]
  /\ gone = {}

\* ----------------------------------------------------------------- helpers
\* DecimalField(decimal_places=2) on save: the value is quantized to two
\* places, ties to even; x is in thousandths and not negative.
Quantize(x) ==
  LET r == x % 10
      base == x - r
  IN  IF r < 5 THEN base
      ELSE IF r > 5 THEN base + 10
      ELSE IF (base \div 10) % 2 = 0 THEN base ELSE base + 10

\* What transaction w reads: committed rows overlaid with its own writes.
VisibleStock(w) ==
  [i \in Items |->
     IF i \in DOMAIN wk[w].ovStock THEN wk[w].ovStock[i] ELSE stock[i]]

\* Row lock: another open transaction holds an uncommitted write of item i.
RowLockedByOther(w, i) ==
  \E w2 \in Workers \ {w} : i \in DOMAIN wk[w2].ovStock

RowLocked(i) == \E w \in Workers : i \in DOMAIN wk[w].ovStock

\* BranchAccessMixin.get_accessible_branches: the branches the listing
\* endpoints (recent_sales, inventory) show to the user.
GetAccessibleBranches(u) ==
  IF UserRole(u) = "owner"
  THEN { b \in Branches :
           BranchRestaurant[b] \in OwnedRestaurants(u) /\ BranchIsActive(b) }
  ELSE IF UserRole(u) \in {"staff", "manager"}
  THEN { b \in AssignedBranches(u) : BranchIsActive(b) }
  ELSE {}

\* check_branch_access letting staff and managers into every branch
CheckBranchAccess_AnyBranch(u, b) ==
  /\ b \in Branches
  /\ \/ UserRole(u) = "owner" /\ BranchRestaurant[b] \in OwnedRestaurants(u)
     \/ UserRole(u) \in {"staff", "manager"}

\* BranchAccessMixin.check_branch_access(branch_id, user).
CheckBranchAccess(u, b) ==
  /\ b \in Branches
  /\ \/ UserRole(u) = "owner" /\ BranchRestaurant[b] \in OwnedRestaurants(u)
     \/ UserRole(u) \in {"staff", "manager"} /\ b \in AssignedBranches(u)

\* Recipe.check_availability: which ingredients it compares against stock.
IngredientIsChecked(g) == TRUE

\* Recipe.check_availability(quantity): the list missing_items.
Shortage(g, n, st) ==
  [item |-> g.item, required |-> g.qty * n, available |-> st[g.item],
   shortage |-> g.qty * n - st[g.item]]

RECURSIVE MissingFrom(_, _, _, _)
MissingFrom(gs, j, n, st) ==
  IF j > Len(gs) THEN << >>
  ELSE IF IngredientIsChecked(gs[j]) /\ st[gs[j].item] < gs[j].qty * n
       THEN << Shortage(gs[j], n, st) >> \o MissingFrom(gs, j + 1, n, st)
       ELSE MissingFrom(gs, j + 1, n, st)

check_availability(m, n, st) == MissingFrom(Ingredients(m), 1, n, st)

\* the recipe test without "recipe.is_active"
HasActiveRecipe_AnyRecipe(m) == HasRecipe(m)

\* hasattr(menu_item, 'recipe') and menu_item.recipe.is_active
HasActiveRecipe(m) == HasRecipe(m) /\ RecipeIsActive(m)

\* create_sale, "Check inventory availability": the loop returns at the
\* first basket line that is short.
RECURSIVE PreCheckFrom(_, _, _)
PreCheckFrom(its, j, st) ==
  IF j > Len(its) THEN [kind |-> "ok", item |-> 0, missing |-> << >>]
  ELSE LET m == its[j].menu IN
       IF m \notin DOMAIN menu
       THEN [kind |-> "notfound", item |-> 0, missing |-> << >>]
       ELSE IF HasActiveRecipe(m) /\ check_availability(m, its[j].qty, st) # << >>
            THEN [kind |-> "short", item |-> m,
                  missing |-> check_availability(m, its[j].qty, st)]
            ELSE PreCheckFrom(its, j + 1, st)

PreCheck(r, st) ==
  IF r.skip THEN [kind |-> "ok", item |-> 0, missing |-> << >>]
  ELSE PreCheckFrom(r.items, 1, st)

\* MenuItem.objects.get(...) of the totals loop finds every line's item.
MenuItemsFound(mode, r) ==
  \A j \in 1 .. Len(r.items) :
     /\ r.items[j].menu \in DOMAIN menu
     /\ mode = "create" =>
          MenuRestaurant[r.items[j].menu] = BranchRestaurant[r.branch]

\* process_inventory_deductions deducting every ingredient
IngredientIsDeducted_All(g) == TRUE

\* process_inventory_deductions: "if not ingredient.is_optional".
IngredientIsDeducted(g) == ~ g.optional

\* Index of the first ingredient of m at or after k that is deducted, else 0.
RECURSIVE NextDeducted(_, _)
NextDeducted(m, k) ==
  IF k > Len(Ingredients(m)) THEN 0
  ELSE IF IngredientIsDeducted(Ingredients(m)[k]) THEN k
  ELSE NextDeducted(m, k + 1)

\* deduct_quantity without its stock check
InsufficientStock_Unchecked(mem, q) == FALSE

\* deduct_quantity: "if self.quantity_in_stock < quantity".
InsufficientStock(mem, q) == mem < q

\* deduct_quantity / add_quantity: "if quantity <= 0".
InvalidQuantity(q) == q <= 0

\* A DecimalField(decimal_places=2) money column on save: x, in hundredths of
\* a cent, is quantized to cents, ties to even.
Cents(x) ==
  LET f == x \div 100
      r == x % 100
  IN  IF r < 50 THEN f
      ELSE IF r > 50 THEN f + 1
      ELSE IF f % 2 = 0 THEN f ELSE f + 1

\* item_subtotal = unit_price * quantity, in cents.
ItemSubtotal(l) == menu[l.menu] * l.qty

\* item_tax = item_subtotal * tax_rate with tax_rate = restaurant.tax_rate / 100,
\* in hundredths of a cent.
ItemTax(l, b) == ItemSubtotal(l) * TaxRate(BranchRestaurant[b])

\* subtotal and tax_total of the totals loop: cents, hundredths of a cent.
RECURSIVE Subtotal(_)
Subtotal(its) ==
  IF its = << >> THEN 0 ELSE ItemSubtotal(Head(its)) + Subtotal(Tail(its))

RECURSIVE TaxTotal(_, _)
TaxTotal(its, b) ==
  IF its = << >> THEN 0 ELSE ItemTax(Head(its), b) + TaxTotal(Tail(its), b)

\* total = subtotal + tax_total - discount_amount, in hundredths of a cent.
Total(r) ==
  100 * Subtotal(r.items) + TaxTotal(r.items, r.branch) - 100 * r.discount

\* The POSSaleItem rows as stored.
SaleItemRows(r) ==
  [j \in 1 .. Len(r.items) |->
     [menu |-> r.items[j].menu, qty |-> r.items[j].qty,
      unit_price |-> menu[r.items[j].menu],
      tax_amount |-> Cents(ItemTax(r.items[j], r.branch)),
      total |-> Cents(100 * ItemSubtotal(r.items[j])
                        + ItemTax(r.items[j], r.branch))]]

\* The POSSale row as stored; lines is the basket the sale was created
\* from, rows are its POSSaleItem rows.
SaleRow(id, r) ==
  [id |-> id, branch |-> r.branch, customer |-> r.contact,
   cashier |-> r.user, offline |-> r.offline, lines |-> r.items,
   subtotal |-> Cents(100 * Subtotal(r.items)),
   tax_amount |-> Cents(TaxTotal(r.items, r.branch)),
   discount_amount |-> r.discount,
   total |-> Cents(Total(r)),
   rows |-> SaleItemRows(r)]

\* A response; known is the id of the sale that held the request's offline id
\* when the request was submitted (NoId if none).
Response(op, status, cause, r, sid) ==
  [op |-> op, status |-> status, cause |-> cause, req |-> r, sale |-> sid,
   item |-> 0, missing |-> << >>, made |-> << >>, known |-> NoId,
   successful |-> << >>, failed |-> << >>, batch |-> << >>]

\* ------------------------------------------------- transactions of a handler
CustomerExists(c) == \E x \in customers : x.contact = c

\* Customer.objects.get_or_create(contact=..., defaults={'name': ...}):
\* the contacts this transaction has to insert.
GetOrCreateCustomer(r) ==
  IF CustomerExists(r.contact) THEN {} ELSE {r.contact}

\* Customer.contact is unique: an INSERT waits for an uncommitted INSERT of
\* the same contact.
CustomerKeyLockedByOther(w, c) ==
  ~ CustomerExists(c) /\ \E w2 \in Workers \ {w} : c \in wk[w2].ovCust

CustomerRows(cs) == { [contact |-> c, name |-> CustomerName(c)] : c \in cs }

\* POSSale offline id is unique (NULLs exempt).
OfflineIdTaken(o) == o # NoId /\ \E s \in sales : s.offline = o

\* The committed sale that holds offline id o, NoId if there is none.
SaleWithOfflineId(o) ==
  IF OfflineIdTaken(o) THEN (CHOOSE s \in sales : s.offline = o).id ELSE NoId

OfflineKeyLockedByOther(w, o) ==
  /\ o # NoId
  /\ \E w2 \in Workers \ {w} :
       wk[w2].ovSale # << >> /\ wk[w2].ovSale[1].offline = o

\* The handler's position between two entries of a bulk body: no open
\* transaction.
BetweenEntries(rec) ==
  [rec EXCEPT !.pc = "bulk", !.req = NoRequest,
              !.ovStock = NoStockWrites, !.ovLog = << >>, !.ovCust = {},
              !.ovSale = << >>, !.li = 0, !.k = 0, !.mem = 0,
              !.errors = FALSE, !.raised = FALSE, !.made = << >>,
              !.known = NoId]

\* Position in the body of the entry the handler is working on.
EntryPos(rec) == Len(rec.batch) - Len(rec.queue)

\* An exception leaves transaction.atomic(): everything the transaction wrote
\* is rolled back.  create_sale answers 400, bulk_sync_sales records the entry
\* under 'failed' and goes on.
Abort(w, cause, sid) ==
  IF wk[w].mode = "create"
  THEN /\ wk' = [wk EXCEPT ![w] = IdleWorker]
       /\ out' = Append(out, [Response("create_sale", 400, cause, wk[w].req, sid)
                                EXCEPT !.made = wk[w].made,
                                       !.known = wk[w].known])
  ELSE /\ wk' = [wk EXCEPT ![w] =
                   [BetweenEntries(wk[w]) EXCEPT !.fail =
                      Append(@, [offline |-> wk[w].req.offline, cause |-> cause,
                                 sale |-> sid, pos |-> EntryPos(wk[w]),
                                 req |-> wk[w].req])]]
       /\ out' = out

\* Position of the loop "for sale_item in self.items.all()" at line j.
AtLine(rec, j) ==
  IF j > Len(rec.req.items)
  THEN [rec EXCEPT !.pc = "finish", !.li = j, !.k = 0]
  ELSE [rec EXCEPT !.pc = "line", !.li = j, !.k = 0]

\* A submission is taken by the first free handler (handlers are
\* interchangeable).
FirstIdle(w) == \A w2 \in Workers : w2 < w => wk[w2].pc # "idle"

\* ------------------------------------------------------------- create_sale
\* Serializer, access check, get_or_create of the customer and the
\* availability pre-check.  A shortage returns the 400 response from inside
\* the atomic block, which therefore commits.
StartCreate(w, r) ==
  /\ wk[w].pc = "idle"
  /\ FirstIdle(w)
  /\ ops < MaxOps
  /\ ops' = ops + 1
  /\ IF ~ CheckBranchAccess(r.user, r.branch)
     THEN /\ out' = Append(out, Response("create_sale", 403, "denied", r, NoId))
          /\ UNCHANGED << wk, customers >>
     ELSE /\ ~ CustomerKeyLockedByOther(w, r.contact)
          /\ LET pre == PreCheck(r, stock)
                 new == GetOrCreateCustomer(r)
             IN  CASE pre.kind = "short" ->
                        /\ customers' = customers \cup CustomerRows(new)
                        /\ out' = Append(out,
                              [Response("create_sale", 400, "precheck", r, NoId)
                                 EXCEPT !.item = pre.item, !.missing = pre.missing,
                                        !.known = SaleWithOfflineId(r.offline)])
                        /\ UNCHANGED wk
                   [] pre.kind = "notfound" ->
                        /\ out' = Append(out,
                              Response("create_sale", 400, "notfound", r, NoId))
                        /\ UNCHANGED << wk, customers >>
                   [] OTHER ->
                        /\ wk' = [wk EXCEPT ![w] =
                                    [IdleWorker EXCEPT !.pc = "persist", !.req = r,
                                                       !.ovCust = new,
                                                       !.known =
                                                         SaleWithOfflineId(r.offline)]]
                        /\ UNCHANGED << out, customers >>
  /\ UNCHANGED << stock, txlog, sales, nextId, lg, menu, orders, gone >>

\* Totals loop, POSSale.objects.create and, in create_sale, the POSSaleItem
\* rows built from the sale_items the totals loop collected.  bulk_sync_sales
\* collects nothing: it creates the header here and reads the menu items
\* again for the rows (PersistItems).
Persist(w) ==
  /\ wk[w].pc = "persist"
  /\ LET r == wk[w].req IN
     IF ~ MenuItemsFound(wk[w].mode, r)
     THEN /\ Abort(w, "notfound", NoId)
          /\ UNCHANGED nextId
     ELSE /\ ~ OfflineKeyLockedByOther(w, r.offline)
          /\ nextId' = nextId + 1
          /\ IF OfflineIdTaken(r.offline)
             THEN Abort(w, "integrity", nextId)
             ELSE /\ wk' = [wk EXCEPT ![w] =
                             IF wk[w].mode = "create"
                             THEN AtLine([wk[w] EXCEPT !.ovSale =
                                           << SaleRow(nextId, r) >>], 1)
                             ELSE [wk[w] EXCEPT !.pc = "items",
                                     !.ovSale =
                                       << [SaleRow(nextId, r)
                                             EXCEPT !.rows = << >>] >>]]
                  /\ out' = out
  /\ UNCHANGED << stock, txlog, sales, customers, lg, ops, menu, orders, gone >>

\* bulk_sync_sales, second "for item_data in data['items']": every menu
\* item is fetched again and its price as it is now goes into the
\* POSSaleItem row.
PersistItems(w) ==
  /\ wk[w].pc = "items"
  /\ LET r == wk[w].req IN
     IF ~ MenuItemsFound(wk[w].mode, r)
     THEN Abort(w, "notfound", wk[w].ovSale[1].id)
     ELSE /\ wk' = [wk EXCEPT ![w] =
                     AtLine([wk[w] EXCEPT !.ovSale[1].rows = SaleItemRows(r)], 1)]
          /\ out' = out
  /\ UNCHANGED << stock, txlog, sales, customers, nextId, lg, ops, menu, orders, gone >>

\* ---------------------------------------- POSSale.process_inventory_deductions
\* process_inventory_deductions without an atomic block of its own
Raise_NoSavepoint(rec) == [rec EXCEPT !.pc = "finish", !.raised = TRUE]

\* An exception inside the method's own atomic block: its savepoint is rolled
\* back and the method returns (False, str(e)).
Raise(rec) ==
  [rec EXCEPT !.pc = "finish", !.raised = TRUE,
              !.ovStock = NoStockWrites, !.ovLog = << >>]

\* One basket line: the recipe test and recipe.check_availability, read from
\* the database at this moment.
CheckLine(w) ==
  /\ wk[w].pc = "line"
  /\ LET rec == wk[w]
         m == rec.req.items[rec.li].menu
         n == rec.req.items[rec.li].qty
     IN  wk' = [wk EXCEPT ![w] =
           IF ~ HasActiveRecipe(m) THEN AtLine(rec, rec.li + 1)
           ELSE IF check_availability(m, n, VisibleStock(w)) # << >>
                THEN AtLine([rec EXCEPT !.errors = TRUE], rec.li + 1)
                ELSE IF NextDeducted(m, 1) = 0 THEN AtLine(rec, rec.li + 1)
                     ELSE [rec EXCEPT !.pc = "load", !.k = NextDeducted(m, 1)]]
  /\ UNCHANGED << stock, txlog, sales, customers, nextId, lg, out, ops, menu, orders, gone >>

\* "ingredient.inventory_item": the row is fetched into memory.
LoadIngredient(w) ==
  /\ wk[w].pc = "load"
  /\ LET rec == wk[w]
         g == Ingredients(rec.req.items[rec.li].menu)[rec.k]
     IN  wk' = [wk EXCEPT ![w] =
                  [rec EXCEPT !.pc = "write", !.mem = VisibleStock(w)[g.item]]]
  /\ UNCHANGED << stock, txlog, sales, customers, nextId, lg, out, ops, menu, orders, gone >>

WantedItem(w) == Ingredients(wk[w].req.items[wk[w].li].menu)[wk[w].k].item
WantedQty(w) ==
  Ingredients(wk[w].req.items[wk[w].li].menu)[wk[w].k].qty
    * wk[w].req.items[wk[w].li].qty

\* deduct_quantity raises on the in-memory row.
DeductRaises(w) ==
  InvalidQuantity(WantedQty(w)) \/ InsufficientStock(wk[w].mem, WantedQty(w))

\* InventoryItem.deduct_quantity on the fetched row: the two checks, the
\* UPDATE of quantity_in_stock and the InventoryTransaction row.
WriteIngredient(w) ==
  /\ wk[w].pc = "write"
  /\ LET rec == wk[w]
         m == rec.req.items[rec.li].menu
         i == WantedItem(w)
         q == WantedQty(w)
     IN  IF DeductRaises(w)
         THEN wk' = [wk EXCEPT ![w] = Raise(rec)]
         ELSE /\ ~ RowLockedByOther(w, i)
              /\ LET done ==
                       [rec EXCEPT
                          !.ovStock = (i :> Quantize(rec.mem - q)) @@ @,
                          !.ovLog = Append(@,
                             [item |-> i, type |-> "sale", qty |-> q,
                              prev |-> rec.mem, new |-> rec.mem - q,
                              sale |-> rec.ovSale[1].id]),
                          !.made = Append(@, [item |-> i, qty |-> q])]
                 IN  wk' = [wk EXCEPT ![w] =
                       IF NextDeducted(m, rec.k + 1) = 0
                       THEN AtLine(done, rec.li + 1)
                       ELSE [done EXCEPT !.pc = "load",
                                         !.k = NextDeducted(m, rec.k + 1)]]
  /\ UNCHANGED << stock, txlog, sales, customers, nextId, lg, out, ops, menu, orders, gone >>

\* deduct_quantity when the database refuses the InventoryTransaction row:
\* the UPDATE of quantity_in_stock has been issued, the INSERT raises.
LogInsertFails(w) ==
  /\ wk[w].pc = "write"
  /\ ~ DeductRaises(w)
  /\ ~ RowLockedByOther(w, WantedItem(w))
  /\ wk' = [wk EXCEPT ![w] =
              Raise([wk[w] EXCEPT !.ovStock =
                       (WantedItem(w) :> Quantize(wk[w].mem - WantedQty(w))) @@ @])]
  /\ UNCHANGED << stock, txlog, sales, customers, nextId, lg, out, ops, menu, orders, gone >>

\* w waits for a row lock.
WaitsFor(w, w2) ==
  /\ wk[w].pc = "write"
  /\ ~ DeductRaises(w)
  /\ WantedItem(w) \in DOMAIN wk[w2].ovStock

\* Two transactions wait for each other's row: the database aborts the
\* statement of one of them with an error.
DeadlockAbort(w) ==
  /\ \E w2 \in Workers \ {w} : WaitsFor(w, w2) /\ WaitsFor(w2, w)
  /\ wk' = [wk EXCEPT ![w] = Raise(wk[w])]
  /\ UNCHANGED << stock, txlog, sales, customers, nextId, lg, out, ops, menu, orders, gone >>

\* create_sale dropping the method's result as bulk_sync_sales does
SaleCommits_Always(mode, success) == TRUE

\* create_sale raises when the method reports failure; bulk_sync_sales drops
\* the method's result.
SaleCommits(mode, success) == mode = "bulk" \/ success

ApplyStock(ov) == [i \in Items |-> IF i \in DOMAIN ov THEN ov[i] ELSE stock[i]]

\* End of process_inventory_deductions ("if errors: raise"), then the end of
\* the handler's atomic block: commit or rollback, and the response.
Finish(w) ==
  /\ wk[w].pc = "finish"
  /\ LET rec == wk[w]
         success == ~ rec.raised /\ ~ rec.errors
         effStock == IF rec.errors THEN NoStockWrites ELSE rec.ovStock
         effLog == IF rec.errors THEN << >> ELSE rec.ovLog
         sale == rec.ovSale[1]
     IN  IF SaleCommits(rec.mode, success)
         THEN /\ customers' = customers \cup CustomerRows(rec.ovCust)
              /\ sales' = sales \cup {sale}
              /\ stock' = ApplyStock(effStock)
              /\ txlog' = txlog \o effLog
              /\ IF rec.mode = "create"
                 THEN /\ wk' = [wk EXCEPT ![w] = IdleWorker]
                      /\ out' = Append(out,
                            [Response("create_sale", 201, "ok", rec.req, sale.id)
                               EXCEPT !.made = rec.made, !.known = rec.known])
                 ELSE /\ wk' = [wk EXCEPT ![w] =
                                 [BetweenEntries(rec) EXCEPT !.succ =
                                    Append(@, [offline |-> rec.req.offline,
                                               sale |-> sale.id,
                                               lines |-> rec.req.items,
                                               pos |-> EntryPos(rec),
                                               req |-> rec.req,
                                               deducted |-> success])]]
                      /\ out' = out
         ELSE /\ Abort(w, "deduction", sale.id)
              /\ UNCHANGED << stock, txlog, sales, customers >>
  /\ UNCHANGED << nextId, lg, ops, menu, orders, gone >>

\* --------------------------------------------------------- bulk_sync_sales
StartBulk(w, b) ==
  /\ wk[w].pc = "idle"
  /\ FirstIdle(w)
  /\ ops < MaxOps
  /\ ops' = ops + 1
  /\ wk' = [wk EXCEPT ![w] =
              [IdleWorker EXCEPT !.pc = "bulk", !.mode = "bulk",
                                 !.batch = b, !.queue = b]]
  /\ UNCHANGED << stock, txlog, sales, customers, nextId, lg, out, menu, orders, gone >>

\* "for sale_data in sales_data" taking the entries from the end
NextEntry_Last(q) == q[Len(q)]

\* "for sale_data in sales_data": the entry the loop takes.
NextEntry(q) == Head(q)

\* "for sale_data in sales_data": the next entry's access check and
\* get_or_create, or the response once the body is exhausted.
BulkNext(w) ==
  /\ wk[w].pc = "bulk"
  /\ LET rec == wk[w] IN
     IF rec.queue = << >>
     THEN /\ out' = Append(out,
                [Response("bulk_sync_sales", 200, "ok", NoRequest, NoId)
                   EXCEPT !.successful = rec.succ, !.failed = rec.fail,
                          !.batch = rec.batch])
          /\ wk' = [wk EXCEPT ![w] = IdleWorker]
     ELSE LET r == NextEntry(rec.queue) IN
          IF ~ CheckBranchAccess(r.user, r.branch)
          THEN /\ wk' = [wk EXCEPT ![w] =
                          [rec EXCEPT !.queue = Tail(@),
                                      !.fail = Append(@,
                                         [offline |-> r.offline,
                                          cause |-> "denied", sale |-> NoId,
                                          pos |-> EntryPos(rec) + 1,
                                          req |-> r])]]
               /\ out' = out
          ELSE /\ ~ CustomerKeyLockedByOther(w, r.contact)
               /\ wk' = [wk EXCEPT ![w] =
                          [rec EXCEPT !.queue = Tail(@), !.pc = "persist",
                                      !.req = r,
                                      !.ovCust = GetOrCreateCustomer(r)]]
               /\ out' = out
  /\ UNCHANGED << stock, txlog, sales, customers, nextId, lg, ops, menu, orders, gone >>

\* -------------------------------------------------- inventory ledger callers
\* (item, quantity) of the add_quantity calls, (item, adjustment) of the
\* adjust_stock calls
LedgerAdds == { << 1, 200 >>, << 2, 0 >>, << 5, 100 >>, << 2, 4 >> }
LedgerAdjusts == { << 1, -100 >>, << 3, 4 >>, << 2, -200 >>, << 2, -90 >> }

\* An InventoryItem instance is fetched for a restock.
LoadForAdd(i, q) ==
  /\ lg.pc = "idle"
  /\ i \notin gone
  /\ ops < MaxOps
  /\ ops' = ops + 1
  /\ lg' = [pc |-> "add", item |-> i, mem |-> stock[i], amt |-> q]
  /\ UNCHANGED << stock, txlog, sales, customers, nextId, wk, out, menu, orders, gone >>

\* InventoryItem.add_quantity on the fetched instance.
AddQuantityWrite ==
  /\ lg.pc = "add"
  /\ IF InvalidQuantity(lg.amt)
     THEN UNCHANGED << stock, txlog >>
     ELSE /\ ~ RowLocked(lg.item)
          /\ stock' = [stock EXCEPT ![lg.item] = Quantize(lg.mem + lg.amt)]
          /\ txlog' = Append(txlog,
                [item |-> lg.item, type |-> "restock", qty |-> lg.amt,
                 prev |-> lg.mem, new |-> lg.mem + lg.amt, sale |-> NoId])
  /\ lg' = IdleLedger
  /\ UNCHANGED << sales, customers, nextId, wk, out, ops, menu, orders, gone >>

\* InventoryViewSet.adjust_stock: item = self.get_object()
LoadForAdjust(i, a) ==
  /\ lg.pc = "idle"
  /\ ops < MaxOps
  /\ ops' = ops + 1
  /\ lg' = [pc |-> "adjust", item |-> i, mem |-> stock[i], amt |-> a]
  /\ UNCHANGED << stock, txlog, sales, customers, nextId, wk, out, menu, orders, gone >>

\* adjust_stock: "if item.quantity_in_stock < 0" after the adjustment.
AdjustRejected(mem, a) == a = 0 \/ mem + a < 0

\* adjust_stock: the checks and item.save().  The InventoryTransaction it
\* then creates has no previous_quantity / new_quantity, which the table
\* declares NOT NULL: the INSERT fails and no row is logged.
AdjustStockWrite ==
  /\ lg.pc = "adjust"
  /\ IF AdjustRejected(lg.mem, lg.amt)
     THEN UNCHANGED stock
     ELSE /\ ~ RowLocked(lg.item)
          /\ stock' = [stock EXCEPT ![lg.item] = Quantize(lg.mem + lg.amt)]
  /\ lg' = IdleLedger
  /\ UNCHANGED << txlog, sales, customers, nextId, wk, out, ops, menu, orders, gone >>

\* ------------------------------------------------------ catalog management
\* inventory items the inventory client deletes
DeletableItems == {5}

\* InventoryViewSet is a ModelViewSet: DELETE /inventory/<id>/ runs
\* item.delete(), and InventoryTransaction.inventory_item is
\* on_delete=CASCADE, so the rows logged for the item go with it.
DeleteInventoryItem(i) ==
  /\ lg.pc = "idle"
  /\ ops < MaxOps
  /\ i \notin gone
  /\ ops' = ops + 1
  /\ gone' = gone \cup {i}
  /\ txlog' = SelectSeq(txlog, LAMBDA t : t.item # i)
  /\ UNCHANGED << stock, sales, customers, nextId, wk, lg, out, menu, orders >>

\* menu items the owner deletes; (menu item, new price) of the price changes
DeletableMenuItems == {3}
PriceUpdates == { << 2, 400 >> }

\* An open transaction has inserted a POSSaleItem row that references menu
\* item m: the row holds a key lock on the MenuItem until it commits.
LineHeldOpen(m) ==
  \E w \in Workers : \E j \in 1 .. Len(wk[w].ovSale) :
     \E x \in 1 .. Len(wk[w].ovSale[j].rows) : wk[w].ovSale[j].rows[x].menu = m

\* MenuItemViewSet.delete_item / delete_multiple: item.delete().
\* POSSaleItem.menu_item is on_delete=CASCADE, so the line items that sold
\* the menu item are deleted with it; the POSSale headers stay.
DeleteMenuItem(m) ==
  /\ ops < MaxOps
  /\ m \in DOMAIN menu
  /\ ~ LineHeldOpen(m)
  /\ ops' = ops + 1
  /\ menu' = [x \in DOMAIN menu \ {m} |-> menu[x]]
  /\ sales' = { [s EXCEPT !.rows = SelectSeq(s.rows, LAMBDA x : x.menu # m)] :
                 s \in sales }
  /\ UNCHANGED << stock, txlog, customers, nextId, wk, lg, out, orders, gone >>

\* MenuItemViewSet.update_item: serializer.save() with a new price.
UpdatePrice(m, p) ==
  /\ ops < MaxOps
  /\ m \in DOMAIN menu
  /\ menu[m] # p
  /\ ops' = ops + 1
  /\ menu' = [menu EXCEPT ![m] = p]
  /\ UNCHANGED << stock, txlog, sales, customers, nextId, wk, lg, out,
                  orders, gone >>

\* InventoryOrderViewSet.mark_received, called by the owner: an order that
\* is already received is answered with 400, any other order gets the status
\* 'received' and is saved.  Nothing else is written.
MarkReceived(o) ==
  /\ ops < MaxOps
  /\ ops' = ops + 1
  /\ orders' = IF orders[o] = "received" THEN orders
               ELSE [orders EXCEPT ![o] = "received"]
  /\ UNCHANGED << stock, txlog, sales, customers, nextId, wk, lg, out,
                  menu, gone >>

\* ----------------------------------------------------------- specification
Next ==
  \/ \E w \in Workers, r \in CreateRequests : StartCreate(w, r)
  \/ \E w \in Workers, b \in Batches : StartBulk(w, b)
  \/ \E w \in Workers : BulkNext(w)
  \/ \E w \in Workers : Persist(w)
  \/ \E w \in Workers : PersistItems(w)
  \/ \E w \in Workers : CheckLine(w)
  \/ \E w \in Workers : LoadIngredient(w)
  \/ \E w \in Workers : WriteIngredient(w)
  \/ \E w \in Workers : LogInsertFails(w)
  \/ \E w \in Workers : DeadlockAbort(w)
  \/ \E w \in Workers : Finish(w)
  \/ \E c \in LedgerAdds : LoadForAdd(c[1], c[2])
  \/ AddQuantityWrite
  \/ \E c \in LedgerAdjusts : LoadForAdjust(c[1], c[2])
  \/ AdjustStockWrite
  \/ \E i \in DeletableItems : DeleteInventoryItem(i)
  \/ \E m \in DeletableMenuItems : DeleteMenuItem(m)
  \/ \E c \in PriceUpdates : UpdatePrice(c[1], c[2])
  \/ \E o \in Orders : MarkReceived(o)

Spec == Init /\ [][Next]_vars

\* C1: the persisted quantity_in_stock of every inventory item is never
\* negative, whatever the interleaving of sale deductions, restocks and
\* stock adjustments.
StockNeverNegative == \A i \in Items : stock[i] >= 0

ConcurrentDeductions ==
  \E a, b \in 1 .. Len(txlog) :
     /\ a # b
     /\ txlog[a].type = "sale" /\ txlog[b].type = "sale"
     /\ txlog[a].item = txlog[b].item
     /\ txlog[a].sale # txlog[b].sale
     /\ txlog[a].prev = txlog[b].prev

\* ------------------------------------------------------- claim vocabulary
Committed == << stock, txlog, sales, customers >>

\* The step sends a response.
Responds == Len(out') = Len(out) + 1
NewResponse == out'[Len(out')]

\* Quantity of item i that the recipes ask for a basket: recipe quantity per
\* serving times line quantity, over the non-optional ingredients of the
\* lines with an active recipe.
RECURSIVE RecipeNeed(_, _, _)
RecipeNeed(gs, n, i) ==
  IF gs = << >> THEN 0
  ELSE (IF Head(gs).item = i /\ ~ Head(gs).optional THEN Head(gs).qty * n ELSE 0)
       + RecipeNeed(Tail(gs), n, i)

RECURSIVE BasketNeed(_, _)
BasketNeed(lines, i) ==
  IF lines = << >> THEN 0
  ELSE (IF HasActiveRecipe(Head(lines).menu)
        THEN RecipeNeed(Ingredients(Head(lines).menu), Head(lines).qty, i)
        ELSE 0)
       + BasketNeed(Tail(lines), i)

\* Sum of the quantities of the log rows of sale sid against item i.
RECURSIVE LoggedFor(_, _, _)
LoggedFor(log, sid, i) ==
  IF log = << >> THEN 0
  ELSE (IF Head(log).sale = sid /\ Head(log).item = i THEN Head(log).qty ELSE 0)
       + LoggedFor(Tail(log), sid, i)

TikkaSale == Request(1, "c1", << Line(1, 1) >>, FALSE, NoId)

\* C2: two create_sale requests that each need 150 of item 1 against a stock
\* of 200: exactly one commits, the other is rejected, the stock ends at
\* 200 - 150 and only the winner's sale and deductions are persisted.
OneOfTwoSalesWins ==
  (/\ ops = 2
   /\ Len(out) = 2
   /\ out[1].req = TikkaSale /\ out[2].req = TikkaSale)
  => /\ Cardinality({ j \in 1 .. 2 : out[j].status = 201 }) = 1
     /\ Cardinality(sales) = 1
     /\ stock[1] = InitStock[1] - 150
     /\ \A a \in 1 .. Len(txlog) : \E s \in sales : txlog[a].sale = s.id
     /\ LoggedFor(txlog, (CHOOSE s \in sales : TRUE).id, 1) = 150

\* A create_sale handler whose inventory deductions failed ends here.
DeductionFailureEnds(w) ==
  /\ wk[w].pc = "finish"
  /\ wk[w].mode = "create"
  /\ wk[w].raised \/ wk[w].errors
  /\ wk'[w].pc # "finish"

InFlight(w) == wk[w].pc \in {"persist", "line", "load", "write"}

NoTraceOfFailedSale ==
  \A j \in 1 .. Len(out) :
     (out[j].op = "create_sale" /\ out[j].cause = "deduction") =>
        /\ \A s \in sales : s.id # out[j].sale
        /\ \A a \in 1 .. Len(txlog) : txlog[a].sale # out[j].sale

\* C3: when an ingredient deduction of create_sale fails (also on the last
\* line, after earlier lines were deducted) the request ends with no new
\* sale, line item or inventory transaction and with every stock as before:
\* neither the steps of the request nor its end write a committed row.
FailedSaleLeavesNothing ==
  /\ [][\A w \in Workers :
          (DeductionFailureEnds(w) \/ (InFlight(w) /\ wk'[w] # wk[w]))
             => UNCHANGED Committed]_vars
  /\ []NoTraceOfFailedSale

FailedOnLaterLine ==
  \E j \in 1 .. Len(out) :
     /\ out[j].op = "create_sale"
     /\ out[j].cause = "deduction"
     /\ Len(out[j].req.items) >= 2
     /\ out[j].made # << >>

\* Quantity that sale record s asks of item i.
SaleNeed(s, i) == BasketNeed(s.lines, i)

\* A handler reports its sale as successful in this step: the 201 of
\* create_sale, or an entry appended to 'successful' by bulk_sync_sales.
ReportsSuccess(w) ==
  /\ wk[w].pc = "finish"
  /\ \/ wk'[w].pc = "idle" /\ Responds /\ NewResponse.status = 201
     \/ wk'[w].pc = "bulk" /\ Len(wk'[w].succ) = Len(wk[w].succ) + 1

\* C4: for every sale reported successful and every inventory item, the
\* quantities logged for the sale add up to recipe quantity x line quantity
\* over the non-optional ingredients of the basket, and the item's stock goes
\* down by exactly that amount when the sale commits.
DeductionsMatchRecipes ==
  [][\A w \in Workers :
       ReportsSuccess(w) =>
         \A i \in Items :
            /\ LoggedFor(txlog', wk[w].ovSale[1].id, i)
                 = BasketNeed(wk[w].req.items, i)
            /\ stock[i] - stock'[i] = BasketNeed(wk[w].req.items, i)]_vars

\* C5: a create_sale whose offline sale id already belongs to a persisted
\* sale when it is submitted answers with that sale as a success.
ResubmissionReturnsExistingSale ==
  \A j \in 1 .. Len(out) :
     (out[j].op = "create_sale" /\ out[j].known # NoId) =>
        out[j].status \in {200, 201} /\ out[j].sale = out[j].known

\* C6: at most one sale per non-null offline sale id, and the deductions of
\* that sale are applied exactly once: its log rows add up to what its
\* basket needs.
OneSaleAndOneDeductionPerOfflineId ==
  /\ \A s, t \in sales : (s.offline # NoId /\ s.offline = t.offline) => s = t
  /\ \A s \in sales :
       s.offline # NoId =>
         \A i \in Items : LoggedFor(txlog, s.id, i) = SaleNeed(s, i)

\* The step answers "Insufficient inventory" from the availability pre-check.
PreCheckRejects == Responds /\ NewResponse.cause = "precheck"

\* C7: a shortage found by the pre-check of create_sale ends the request
\* with nothing written: no customer, sale, line item, transaction or stock
\* change.
PreCheckShortageWritesNothing ==
  [][PreCheckRejects => UNCHANGED Committed]_vars

\* Lines of a basket that lack stock st for a non-optional ingredient.
ShortLines(its, st) ==
  { j \in 1 .. Len(its) :
      /\ HasActiveRecipe(its[j].menu)
      /\ \E k \in 1 .. Len(Ingredients(its[j].menu)) :
           LET g == Ingredients(its[j].menu)[k]
           IN  ~ g.optional /\ st[g.item] < g.qty * its[j].qty }

\* C8: the insufficient-inventory response lists every basket line that is
\* short, not only the first one.
ShortageResponseListsEveryLine ==
  [][PreCheckRejects =>
       \A j \in ShortLines(NewResponse.req.items, stock) :
          NewResponse.req.items[j].menu = NewResponse.item]_vars

IsOptionalIn(m, i) ==
  \E k \in 1 .. Len(Ingredients(m)) :
     Ingredients(m)[k].item = i /\ Ingredients(m)[k].optional

\* C9: an optional ingredient never blocks a sale: no shortage reported by
\* the availability check is a shortage of an optional ingredient.
OptionalNeverBlocks ==
  \A j \in 1 .. Len(out) :
     out[j].cause = "precheck" =>
        \A x \in 1 .. Len(out[j].missing) :
           ~ IsOptionalIn(out[j].item, out[j].missing[x].item)

\* Item i is a non-optional ingredient of a line of the basket.
DeductedBy(lines, i) == BasketNeed(lines, i) > 0

\* C10: a sale neither deducts nor logs an optional ingredient: every sale
\* row of the log is for a non-optional ingredient of its sale's basket, and
\* the end of a sale leaves the stock of every other item as it was.
OptionalNeverDeducted ==
  /\ [][\A w \in Workers :
          (wk[w].pc = "finish" /\ wk'[w].pc # "finish") =>
            \A i \in Items :
               ~ DeductedBy(wk[w].req.items, i) => stock'[i] = stock[i]]_vars
  /\ [](\A a \in 1 .. Len(txlog) :
          txlog[a].type = "sale" =>
            \E s \in sales : s.id = txlog[a].sale /\ DeductedBy(s.lines, txlog[a].item))

SoldWithOptionalIngredient ==
  \E s \in sales :
     /\ \E j \in 1 .. Len(s.lines), i \in Items : IsOptionalIn(s.lines[j].menu, i)
     /\ \E a \in 1 .. Len(txlog) : txlog[a].sale = s.id
     /\ \E j \in 1 .. Len(out) : out[j].status = 201 /\ out[j].sale = s.id

\* A menu item with no recipe, or whose recipe is inactive.
Unconstrained(m) == ~ HasRecipe(m) \/ ~ RecipeIsActive(m)

OnlyUnconstrained(its) ==
  its # << >> /\ \A j \in 1 .. Len(its) : Unconstrained(its[j].menu)

\* C11: a menu item with no recipe or an inactive recipe is unconstrained:
\* the availability check never reports its line short, whatever the stock,
\* its line raises no deduction error, and a sale of such items alone is
\* committed with every stock unchanged and no inventory transaction.
NoRecipeIsUnconstrained ==
  /\ [](\A j \in 1 .. Len(out) :
          out[j].cause = "precheck" => ~ Unconstrained(out[j].item))
  /\ [][\A w \in Workers :
          /\ (/\ wk[w].pc = "line"
              /\ Unconstrained(wk[w].req.items[wk[w].li].menu)
              /\ wk'[w] # wk[w])
               => /\ wk'[w].errors = wk[w].errors
                  /\ wk'[w].ovStock = wk[w].ovStock
                  /\ wk'[w].ovLog = wk[w].ovLog
                  /\ wk'[w].pc \in {"line", "finish"}
          /\ (/\ wk[w].pc = "finish"
              /\ wk'[w].pc # "finish"
              /\ OnlyUnconstrained(wk[w].req.items))
               => /\ stock' = stock
                  /\ txlog' = txlog
                  /\ wk[w].ovSale[1] \in sales']_vars

SoldWithoutRecipe ==
  \E s \in sales :
     /\ \E j \in 1 .. Len(s.lines) : ~ HasRecipe(s.lines[j].menu)
     /\ \E j \in 1 .. Len(s.lines) :
          /\ HasRecipe(s.lines[j].menu)
          /\ ~ RecipeIsActive(s.lines[j].menu)
          /\ check_availability(s.lines[j].menu, s.lines[j].qty, stock) # << >>
     /\ \E j \in 1 .. Len(out) : out[j].status = 201 /\ out[j].sale = s.id

\* A basket that is empty or has a line whose quantity is not positive.
InvalidBasket(its) ==
  its = << >> \/ \E j \in 1 .. Len(its) : its[j].qty <= 0

\* C12: create_sale rejects every empty basket and every basket with a line
\* of zero or negative quantity: such a request is never answered with a
\* success and never leaves a persisted sale.
InvalidBasketIsRejected ==
  /\ \A j \in 1 .. Len(out) :
       (out[j].op = "create_sale" /\ InvalidBasket(out[j].req.items))
          => out[j].status = 400
  /\ \A s \in sales : ~ InvalidBasket(s.lines)

\* The basket has a menu item of another restaurant than the branch's.
HasForeignItem(b, its) ==
  /\ b \in Branches
  /\ \E j \in 1 .. Len(its) :
       /\ its[j].menu \in MenuItems
       /\ MenuRestaurant[its[j].menu] # BranchRestaurant[b]

\* C13: a basket with a menu item that does not belong to the branch's
\* restaurant is rejected as "menu item not found", never as insufficient
\* inventory, by create_sale and by bulk_sync_sales, and no sale with such a
\* line is persisted.
ForeignMenuItemIsRejected ==
  /\ \A j \in 1 .. Len(out) :
       (/\ out[j].op = "create_sale"
        /\ out[j].status # 403
        /\ HasForeignItem(out[j].req.branch, out[j].req.items))
          => out[j].status = 400 /\ out[j].cause = "notfound"
  /\ \A s \in sales : ~ HasForeignItem(s.branch, s.lines)

\* Sum of unit_price x quantity over stored line items, in cents.
RECURSIVE RowsSubtotal(_)
RowsSubtotal(rows) ==
  IF rows = << >> THEN 0
  ELSE Head(rows).unit_price * Head(rows).qty + RowsSubtotal(Tail(rows))

\* C14: the totals that create_sale persists satisfy, in exact fixed-point
\* arithmetic, total = subtotal + tax_amount - discount_amount, subtotal =
\* sum of unit price x quantity, tax_amount = sum of line subtotal x tax rate
\* / 100, and on every line total = unit_price x quantity + tax_amount.
PersistedTotalsAreExact ==
  \A s \in sales :
     /\ s.total = s.subtotal + s.tax_amount - s.discount_amount
     /\ s.subtotal = RowsSubtotal(s.rows)
     /\ 100 * s.tax_amount
          = RowsSubtotal(s.rows) * TaxRate(BranchRestaurant[s.branch])
     /\ \A j \in 1 .. Len(s.rows) :
          s.rows[j].total
            = s.rows[j].unit_price * s.rows[j].qty + s.rows[j].tax_amount

\* Entries of a result list, by position in the body.
EntriesAt(list, p) == { x \in 1 .. Len(list) : list[x].pos = p }

InInputOrder(list) ==
  \A x, y \in 1 .. Len(list) : x < y => list[x].pos < list[y].pos

\* The answer of bulk_sync_sales accounts for every entry of the body once,
\* in input order; what it lists as failed left no sale and no transaction,
\* what it lists as successful is a persisted sale, with its deductions
\* where the deduction went through.
BulkAnswerIsPerEntry(resp) ==
  /\ Len(resp.successful) + Len(resp.failed) = Len(resp.batch)
  /\ InInputOrder(resp.successful) /\ InInputOrder(resp.failed)
  /\ \A p \in 1 .. Len(resp.batch) :
       /\ Cardinality(EntriesAt(resp.successful, p))
            + Cardinality(EntriesAt(resp.failed, p)) = 1
       /\ \A x \in EntriesAt(resp.successful, p) :
            resp.successful[x].req = resp.batch[p]
       /\ \A x \in EntriesAt(resp.failed, p) :
            resp.failed[x].req = resp.batch[p]
  /\ \A x \in 1 .. Len(resp.failed) :
       resp.failed[x].sale # NoId =>
         /\ \A s \in sales : s.id # resp.failed[x].sale
         /\ \A a \in 1 .. Len(txlog) : txlog[a].sale # resp.failed[x].sale
  /\ \A x \in 1 .. Len(resp.successful) :
       LET e == resp.successful[x] IN
       /\ \E s \in sales : s.id = e.sale /\ s.lines = e.req.items
       /\ e.deducted =>
            \A i \in Items : LoggedFor(txlog, e.sale, i) = BasketNeed(e.req.items, i)

\* bulk_sync_sales records an entry as failed in this step.
RecordsFailure(w) ==
  wk[w].mode = "bulk" /\ Len(wk'[w].fail) = Len(wk[w].fail) + 1

ShortEntryEnds(w) ==
  /\ wk[w].pc = "finish"
  /\ wk[w].mode = "bulk"
  /\ wk[w].errors
  /\ wk'[w].pc # "finish"

\* C16: a bulk_sync_sales entry whose basket needs more of an ingredient
\* than is in stock is recorded under 'failed', is not listed under
\* 'successful' and persists no sale.
ShortBulkEntryIsFailed ==
  [][\A w \in Workers :
       ShortEntryEnds(w) =>
         /\ Len(wk'[w].fail) = Len(wk[w].fail) + 1
         /\ wk'[w].succ = wk[w].succ
         /\ sales' = sales]_vars

\* The caller may act for the branch: it is a branch of a restaurant an
\* owner owns, or one a staff member or manager is assigned to.
MayAccess(u, b) ==
  /\ b \in Branches
  /\ UserRole(u) \in {"owner", "staff", "manager"}
  /\ UserRole(u) = "owner" => BranchRestaurant[b] \in OwnedRestaurants(u)
  /\ UserRole(u) \in {"staff", "manager"} => b \in AssignedBranches(u)

\* The step refuses a request for want of access to the branch.
RefusesAccess(w) ==
  \/ Responds /\ NewResponse.status = 403
  \/ /\ Len(wk'[w].fail) = Len(wk[w].fail) + 1
     /\ wk'[w].fail[Len(wk'[w].fail)].cause = "denied"

\* C17: a create_sale request or bulk_sync_sales entry for a branch the
\* caller cannot access is refused, with 403 or a 'failed' entry, and changes
\* no persisted state; no sale is ever persisted for such a branch.
AccessDeniedWritesNothing ==
  /\ [](/\ \A j \in 1 .. Len(out) :
            /\ (out[j].op = "create_sale"
                  /\ ~ MayAccess(out[j].req.user, out[j].req.branch))
                 => out[j].status = 403
            /\ out[j].op = "bulk_sync_sales" =>
                 /\ \A x \in 1 .. Len(out[j].successful) :
                      MayAccess(out[j].successful[x].req.user,
                                out[j].successful[x].req.branch)
                 /\ \A x \in 1 .. Len(out[j].failed) :
                      ~ MayAccess(out[j].failed[x].req.user,
                                  out[j].failed[x].req.branch)
                        => out[j].failed[x].cause = "denied"
        /\ \A s \in sales : MayAccess(s.cashier, s.branch))
  /\ [][\A w \in Workers :
          RefusesAccess(w) => UNCHANGED << Committed, nextId >>]_vars

AccessRefusedTwice ==
  /\ \E j \in 1 .. Len(out) :
       /\ out[j].op = "create_sale" /\ out[j].status = 403
       /\ out[j].req.user = "staff"
       /\ ~ CustomerExists(out[j].req.contact)
  /\ \E j \in 1 .. Len(out) :
       /\ out[j].op = "bulk_sync_sales"
       /\ \E x \in 1 .. Len(out[j].failed) : out[j].failed[x].cause = "denied"
       /\ out[j].successful # << >>

\* The step is deduct_quantity called by handler w on the row it fetched.
DeductQuantityStep(w) == wk[w].pc = "write" /\ wk'[w] # wk[w]

\* C18: deduct_quantity(q) fails when q <= 0 or q exceeds the stock of the
\* row, leaving stock and log as they were; when 0 < q <= stock it leaves the
\* stock at previous stock - q and appends exactly one inventory transaction
\* whose previous_quantity, quantity and new_quantity match.
DeductQuantityContract ==
  [][\A w \in Workers :
       DeductQuantityStep(w) =>
         LET q == WantedQty(w)
             i == WantedItem(w)
             prev == wk[w].mem
         IN  IF q <= 0 \/ q > prev
             THEN /\ wk'[w].raised
                  /\ wk'[w].ovLog = << >> /\ wk'[w].ovStock = NoStockWrites
                  /\ stock' = stock /\ txlog' = txlog
             ELSE \/ wk'[w].raised
                  \/ /\ i \in DOMAIN wk'[w].ovStock
                     /\ wk'[w].ovStock[i] = prev - q
                     /\ wk'[w].ovLog =
                          Append(wk[w].ovLog,
                                 [item |-> i, type |-> "sale", qty |-> q,
                                  prev |-> prev, new |-> prev - q,
                                  sale |-> wk[w].ovSale[1].id])]_vars

\* Log rows the step appends for item i.
NewRowsFor(i) ==
  { a \in Len(txlog) + 1 .. Len(txlog') : txlog'[a].item = i }

\* C19: the stock decrement of a deduction and its audit record are one
\* atomic unit: whenever a sale's commit lowers the persisted stock of an
\* item it appends an inventory transaction of that item in the same step,
\* and a deduction whose record could not be written leaves the stock alone.
DecrementAndRecordAreAtomic ==
  [][lg' = lg =>
       \A i \in Items :
          stock'[i] < stock[i] =>
            \E a \in NewRowsFor(i) :
               /\ txlog'[a].type = "sale"
               /\ txlog'[a].new < txlog'[a].prev]_vars

\* A single sale of one tikka against a full stock fails after its first
\* ingredient was deducted: the record of the second could not be written.
RecordNotWritten ==
  /\ ops = 1
  /\ Len(out) = 1
  /\ out[1].req = TikkaSale
  /\ out[1].cause = "deduction"
  /\ out[1].made # << >>
  /\ stock = InitStock
  /\ txlog = << >>

\* C20: every change of a persisted quantity_in_stock, by a sale, a restock
\* or adjust_stock, comes with inventory transactions of that item whose
\* previous_quantity is the stock before and whose new_quantity is the stock
\* after the change.
EveryStockChangeIsLogged ==
  [][\A i \in Items :
       stock'[i] # stock[i] =>
         /\ \E a \in NewRowsFor(i) : txlog'[a].prev = stock[i]
         /\ \E a \in NewRowsFor(i) : txlog'[a].new = stock'[i]]_vars


\* C21: the inventory transaction log is append-only: no operation,
\* deleting an inventory item through the inventory endpoint included,
\* removes or changes a row that was committed; the log of the later state
\* begins with the log of the earlier state.
LogIsAppendOnly ==
  [][/\ Len(txlog') >= Len(txlog)
     /\ \A j \in 1 .. Len(txlog) : txlog'[j] = txlog[j]]_vars


\* C22: a committed sale is immutable: no later operation (further sales, a
\* price change, deleting a menu item, stock adjustments) changes or removes
\* a persisted sale header or any of its line items with their unit_price,
\* tax_amount and total snapshots.
CommittedSaleIsImmutable == [][\A s \in sales : s \in sales']_vars


\* C23: skipping the pre-check changes nothing that is persisted: a
\* create_sale with skip_inventory_check that is answered with a success
\* would have passed the pre-check on the stock it was committed against,
\* and its basket needs no more of any inventory item than that stock holds
\* (a basket that needs more than the stock is rejected with nothing
\* committed even when the pre-check is skipped).
SkippedPreCheckChangesNothing ==
  [][(/\ Responds
      /\ NewResponse.op = "create_sale"
      /\ NewResponse.status = 201
      /\ NewResponse.req.skip)
        => /\ PreCheckFrom(NewResponse.req.items, 1, stock).kind = "ok"
           /\ \A i \in Items :
                BasketNeed(NewResponse.req.items, i) <= stock[i]]_vars


\* A step that is one call of add_quantity.
AddQuantityStep == lg.pc = "add" /\ lg'.pc = "idle"

\* C24: add_quantity(q) fails when q <= 0, leaving stock and log as they
\* were; when q > 0 it leaves the stock at previous stock + q and appends
\* exactly one inventory transaction, of type restock, whose
\* previous_quantity, quantity and new_quantity match (so that an add of q
\* followed by a deduct of q restores the stock with two new records).
AddQuantityContract ==
  [][AddQuantityStep =>
       LET q == lg.amt
           i == lg.item
           prev == lg.mem
       IN  IF q <= 0
           THEN stock' = stock /\ txlog' = txlog
           ELSE /\ stock'[i] = prev + q
                /\ txlog' = Append(txlog,
                     [item |-> i, type |-> "restock", qty |-> q,
                      prev |-> prev, new |-> prev + q, sale |-> NoId])]_vars


\* C25: customer resolution by contact is idempotent: there is at most one
\* Customer per contact, a stored Customer is never changed or removed by a
\* sale for its contact, no request is refused for repeating a contact, and
\* a Customer row is persisted only together with the sale that created it.
CustomerResolutionIsIdempotent ==
  [][/\ \A x, y \in customers' : x.contact = y.contact => x = y
     /\ \A x \in customers : x \in customers'
     /\ (Responds /\ NewResponse.cause = "integrity")
          => NewResponse.req.offline # NoId
     /\ customers' # customers => sales' # sales]_vars


\* C26: within one sale the deductions are applied in non-decreasing
\* inventory item id order over the whole basket, and no two open sales wait
\* for each other's inventory row.
DeductionsInItemOrder ==
  /\ \A a, b \in 1 .. Len(txlog) :
       (a < b /\ txlog[a].sale # NoId /\ txlog[a].sale = txlog[b].sale)
          => txlog[a].item <= txlog[b].item
  /\ \A w \in Workers :
       \A a, b \in 1 .. Len(wk[w].ovLog) :
          a < b => wk[w].ovLog[a].item <= wk[w].ovLog[b].item
  /\ ~ \E w, w2 \in Workers : w # w2 /\ WaitsFor(w, w2) /\ WaitsFor(w2, w)


\* A step that is one call of mark_received: a request is taken and nothing
\* of the sale handlers, the ledger caller or the catalog moves.
MarkReceivedStep ==
  /\ ops' = ops + 1
  /\ UNCHANGED << sales, customers, nextId, wk, lg, out, menu, gone >>

\* C27: mark_received on an order that is not yet received sets its status
\* to received and raises the ordered item's stock by quantity_ordered with
\* one restock transaction; mark_received on a received order changes
\* neither the stock nor the log nor the order.
MarkReceivedCreditsOnce ==
  [][\A o \in Orders :
       MarkReceivedStep =>
         IF orders[o] = "received"
         THEN UNCHANGED << stock, txlog, orders >>
         ELSE LET i == OrderItem(o)
                  q == QuantityOrdered(o)
              IN  /\ orders'[o] = "received"
                  /\ stock'[i] = stock[i] + q
                  /\ txlog' = Append(txlog,
                       [item |-> i, type |-> "restock", qty |-> q,
                        prev |-> stock[i], new |-> stock[i] + q,
                        sale |-> NoId])]_vars


\* Logged additions minus logged deductions of item i.
RECURSIVE LedgerNet(_, _)
LedgerNet(log, i) ==
  IF log = << >> THEN 0
  ELSE (IF Head(log).item # i THEN 0
        ELSE IF Head(log).type = "restock" THEN Head(log).qty
        ELSE 0 - Head(log).qty)
       + LedgerNet(Tail(log), i)

\* C28: ledger conservation: in every committed state the stock of every
\* inventory item is its initial stock plus the logged additions minus the
\* logged deductions, and each transaction's previous_quantity is the
\* new_quantity of the item's preceding transaction.
LedgerConservation ==
  \A i \in Items \ gone :
     /\ stock[i] = InitStock[i] + LedgerNet(txlog, i)
     /\ \A a, b \in 1 .. Len(txlog) :
          (/\ a < b
           /\ txlog[a].item = i /\ txlog[b].item = i
           /\ \A c \in a + 1 .. b - 1 : txlog[c].item # i)
             => txlog[b].prev = txlog[a].new


\* Sum of the tax amounts of stored line items, in cents.
RECURSIVE RowsTax(_)
RowsTax(rows) ==
  IF rows = << >> THEN 0 ELSE Head(rows).tax_amount + RowsTax(Tail(rows))

\* C29: the header of every persisted sale agrees with its line items:
\* subtotal is the sum of the lines' unit_price x quantity and tax_amount is
\* the sum of the lines' tax amounts, also when a price was changed while the
\* sale was being created.
HeaderAgreesWithLines ==
  \A s \in sales :
     /\ s.subtotal = RowsSubtotal(s.rows)
     /\ s.tax_amount = RowsTax(s.rows)


\* C30: branch access is decided consistently: a create_sale request passes
\* check_branch_access exactly when its branch is among the caller's
\* get_accessible_branches(), and no persisted sale is for a branch that is
\* not among its cashier's accessible branches (a deactivated branch, for
\* example).
BranchAccessIsConsistent ==
  /\ \A j \in 1 .. Len(out) :
       out[j].op = "create_sale" =>
          (out[j].status # 403
             <=> out[j].req.branch \in GetAccessibleBranches(out[j].req.user))
  /\ \A s \in sales : s.branch \in GetAccessibleBranches(s.cashier)

====
